---- MODULE Spec2Model ----
(***************************************************************************)
(* Model of src/plugins/TypeScriptPlugin.ts: the language-service manager  *)
(* returned by getLanguageService() (the documents table, the host         *)
(* callbacks, the restart in updateDocument) and the TypeScriptPlugin      *)
(* operations built on it.                                                 *)
(***************************************************************************)
EXTENDS Integers, Sequences, FiniteSets, TLC

\* ------------------------------------------------------------------ bounds
\* Highest number of edits the editor makes to one document.
MaxEdits == 1

\* ------------------------------------------------------- the environment
\* Paths of the documents the editor has open (Document.getFilePath()).
Paths == {"/w/App.svelte", "/w/B.html"}
\* Values of Document.getText().
Texts == {"", "let x = 1"}
\* Values of Document.getAttributes().type; "absent" is a missing attribute.
\* A document is opened with an empty script of any type, at FirstVersion.
TypeAttributes == {"text/typescript", "text/javascript", "absent"}
\* Document.version of the documents when the model starts: one digit, so
\* that the first edit takes the version string from one digit to two.
FirstVersion == 9

\* What ts.sys.readFile yields: the files on disk and their text.
DiskFiles == {"/w/lib.ts", "/w/App.svelte"}
readFile(fileName) ==
    CASE fileName = "/w/lib.ts" -> [found |-> TRUE, text |-> "export {}"]
      [] fileName = "/w/App.svelte" -> [found |-> TRUE, text |-> "<script>"]
      [] OTHER -> [found |-> FALSE, text |-> ""]

\* Every file name the engine may ask the host about.
FileNames == Paths \cup DiskFiles \cup {"/w/missing.ts"}

\* What configuration discovery (findConfigFile, readConfigFile,
\* parseJsonConfigFileContent) may yield: no config file, a config file that
\* cannot be read, or a parsed config with its file names and options.
ConfigOutcomes ==
    { [found |-> FALSE, json |-> FALSE, fileNames |-> <<>>, options |-> <<>>],
      [found |-> TRUE, json |-> FALSE, fileNames |-> <<>>, options |-> <<>>],
      [found |-> TRUE, json |-> TRUE,
       fileNames |-> <<"/w/lib.ts", "/w/App.svelte">>, options |-> <<"strict">>] }

VARIABLES
    constructed,      \* the TypeScriptPlugin object exists
    docs,             \* the editor's Document objects, by path
    documents,        \* the manager's Map<string, DocumentSnapshot>, in insertion order
    compilerOptions,  \* the closure variable compilerOptions
    files,            \* the closure variable files (declared, maybe never assigned)
    host,             \* identity of the LanguageServiceHost object (0: none yet)
    sessions,         \* every language service ever created, in creation order
    languageService,  \* index in sessions of the closure variable languageService
    pending,          \* formatDocument calls suspended at prettier.resolveConfig
    held,             \* a snapshot object a caller of the host still holds
    last              \* the last operation and what it returned

vars == <<constructed, docs, documents, compilerOptions, files, host,
          sessions, languageService, pending, held, last>>

\* ---------------------------------------------------------------- helpers
RECURSIVE SeqContains(_, _)
SeqContains(s, x) ==
    IF s = <<>> THEN FALSE
    ELSE IF Head(s) = x THEN TRUE ELSE SeqContains(Tail(s), x)

\* Array.from(new Set(array)): first occurrences, in order.
RECURSIVE DedupFrom(_, _)
DedupFrom(seen, s) ==
    IF s = <<>> THEN seen
    ELSE IF SeqContains(seen, Head(s)) THEN DedupFrom(seen, Tail(s))
         ELSE DedupFrom(Append(seen, Head(s)), Tail(s))
ArrayFromSet(s) == DedupFrom(<<>>, s)

SeqToSet(s) == { s[i] : i \in 1..Len(s) }

\* String(n) for a non-negative integer: its decimal digits.
DigitChar(d) ==
    CASE d = 0 -> "0" [] d = 1 -> "1" [] d = 2 -> "2" [] d = 3 -> "3"
      [] d = 4 -> "4" [] d = 5 -> "5" [] d = 6 -> "6" [] d = 7 -> "7"
      [] d = 8 -> "8" [] d = 9 -> "9"
RECURSIVE StringOfNumber(_)
StringOfNumber(n) ==
    IF n < 10 THEN <<DigitChar(n)>>
    ELSE Append(StringOfNumber(n \div 10), DigitChar(n % 10))

\* The number a decimal string denotes (the engine-side reading of a version).
DigitValue(c) == CHOOSE d \in 0..9 : DigitChar(d) = c
RECURSIVE NumberOfString(_)
NumberOfString(s) ==
    IF Len(s) = 0 THEN 0
    ELSE 10 * NumberOfString(SubSeq(s, 1, Len(s) - 1)) + DigitValue(s[Len(s)])

\* ------------------------------------------------------- script kinds
\* The mapping with TypeScript as the default of the switch.
getScriptKindFromTypeAttribute_TypedByDefault(type) ==
    CASE type = "text/javascript" -> "JS"
      [] OTHER -> "TS"

\* switch (typeAttribute) { case 'text/typescript': TS; case
\* 'text/javascript': default: JS }
getScriptKindFromTypeAttribute(type) ==
    CASE type = "text/typescript" -> "TS"
      [] type = "text/javascript" -> "JS"
      [] OTHER -> "JS"

\* ------------------------------------------------------- DocumentSnapshot
\* fromDocument with the text length stored as the version.
fromDocument_LengthAsVersion(document) ==
    [ version |-> Len(document.text),
      scriptKind |-> getScriptKindFromTypeAttribute(document.type),
      text |-> document.text,
      length |-> Len(document.text) ]

fromDocument(document) ==
    [ version |-> document.version,
      scriptKind |-> getScriptKindFromTypeAttribute(document.type),
      text |-> document.text,
      length |-> Len(document.text) ]

\* ------------------------------------------------------- the documents Map
MapKeys(m) == [ i \in 1..Len(m) |-> m[i].key ]
MapHas(m, k) == \E i \in 1..Len(m) : m[i].key = k
MapGet(m, k) == m[CHOOSE i \in 1..Len(m) : m[i].key = k].snap
\* documents.set that keeps the entry a key already has.
MapSet_IfAbsent(m, k, s) ==
    IF MapHas(m, k) THEN m ELSE Append(m, [key |-> k, snap |-> s])

\* documents.set that clears the Map before it stores the entry.
MapSet_Reset(m, k, s) == <<[key |-> k, snap |-> s]>>

MapSet(m, k, s) ==
    IF MapHas(m, k)
    THEN [ i \in 1..Len(m) |-> IF m[i].key = k THEN [key |-> k, snap |-> s] ELSE m[i] ]
    ELSE Append(m, [key |-> k, snap |-> s])

\* ------------------------------------------------------- compiler options
DefaultCompilerOptions ==
    [ allowNonTsExtensions |-> TRUE, target |-> "Latest", module |-> "ESNext",
      moduleResolution |-> "NodeJs", allowJs |-> TRUE, strict |-> FALSE ]

\* { ...compilerOptions, ...parsedConfig.options }
MergeOptions(base, options) ==
    IF SeqContains(options, "strict") THEN [base EXCEPT !.strict = TRUE] ELSE base

\* ------------------------------------------------------- language services
LiveSessions(ss) == { i \in 1..Len(ss) : ~ss[i].disposed }

\* languageService.dispose()
dispose(ss, i) == [ss EXCEPT ![i].disposed = TRUE]

\* ts.createLanguageService(host): a new service object bound to host h.
\* liveBefore records how many services were live when this one was created.
createLanguageService(ss, h) ==
    Append(ss, [host |-> h, disposed |-> FALSE,
                liveBefore |-> Cardinality(LiveSessions(ss))])

\* ------------------------------------------------------- host callbacks
\* Each takes the closure state it reads (the files variable, the documents
\* Map) so that it can be evaluated on the state an operation leaves.
getCompilationSettings(options) == options

\* Array.from(new Set([...files, ...Array.from(documents.keys())])):
\* spreading files throws a TypeError while files was never assigned.
getScriptFileNames(fs, m) ==
    IF ~fs.assigned THEN [threw |-> TRUE, value |-> <<>>]
    ELSE [threw |-> FALSE, value |-> ArrayFromSet(fs.value \o MapKeys(m))]

getScriptVersion(m, fileName) ==
    IF MapHas(m, fileName) THEN StringOfNumber(MapGet(m, fileName).version)
    ELSE <<"0">>

\* ts.ScriptSnapshot.fromString(text)
ScriptSnapshotFromString(text) ==
    [fromString |-> TRUE, text |-> text, length |-> Len(text)]

\* getScriptSnapshot answering undefined for a file that is not in the Map.
Undefined == [undefined |-> TRUE]
getScriptSnapshot_Undefined(m, fileName) ==
    IF MapHas(m, fileName) THEN MapGet(m, fileName) ELSE Undefined

getScriptSnapshot(m, fileName) ==
    IF MapHas(m, fileName) THEN MapGet(m, fileName)
    ELSE ScriptSnapshotFromString(
             IF readFile(fileName).found /\ readFile(fileName).text # ""
             THEN readFile(fileName).text ELSE "")

\* ------------------------------------------------------- updateDocument
\* The restart condition true for every fragment already in the Map.
scriptKindChanged_WhenTracked(m, path, newSnapshot) == MapHas(m, path)

\* The restart condition comparing whole snapshots instead of script kinds.
scriptKindChanged_AnyChange(m, path, newSnapshot) ==
    MapHas(m, path) /\ MapGet(m, path) # newSnapshot

\* preSnapshot && preSnapshot.scriptKind !== newSnapshot.scriptKind
scriptKindChanged(m, path, newSnapshot) ==
    MapHas(m, path) /\ MapGet(m, path).scriptKind # newSnapshot.scriptKind

\* The restart without the dispose() call.
restartLanguageService_NoDispose(ss, current, h) ==
    createLanguageService(ss, h)

\* The restart building the new service on another host object.
restartLanguageService_NewHost(ss, current, h) ==
    createLanguageService(dispose(ss, current), h + 1)

\* languageService.dispose(); languageService = ts.createLanguageService(host)
restartLanguageService(ss, current, h) ==
    createLanguageService(dispose(ss, current), h)

\* A snapshot object obtained from host.getScriptSnapshot and kept by the
\* caller: the path it was asked for, the members of the object, and
\* whether it is still the object the Map holds for that path.
NotHeld == [path |-> "", snap |-> <<>>, stored |-> FALSE]

\* What the members of a snapshot object yield (version, scriptKind,
\* getText over the whole text, getLength): the values fromDocument
\* captured, whatever the document is now.
snapshotContents(snapshot, document) ==
    [ version |-> snapshot.version, scriptKind |-> snapshot.scriptKind,
      text |-> snapshot.text, length |-> snapshot.length ]

\* An update that writes the new values into the object the Map holds.
heldAfterSet_InPlace(h, path, newSnapshot) ==
    IF h.path = path /\ h.stored THEN [h EXCEPT !.snap = newSnapshot] ELSE h

\* What documents.set(path, newSnapshot) does to an object held for path:
\* newSnapshot is a new object, so the held one keeps its members and is
\* no longer the one in the Map.
heldAfterSet(h, path, newSnapshot) ==
    IF h.path = path THEN [h EXCEPT !.stored = FALSE] ELSE h

\* updateDocument(docs[p]): the restart when the script kind changed, then
\* documents.set; the service it returns is languageService'.
updateDocument(p) ==
    /\ constructed
    /\ LET newSnapshot == fromDocument(docs[p])
       IN /\ IF scriptKindChanged(documents, p, newSnapshot)
             THEN /\ sessions' = restartLanguageService(sessions, languageService, host)
                  /\ languageService' = Len(sessions')
             ELSE /\ sessions' = sessions
                  /\ languageService' = languageService
          /\ documents' = MapSet(documents, p, newSnapshot)
          /\ held' = heldAfterSet(held, p, newSnapshot)
    /\ UNCHANGED <<constructed, docs, compilerOptions, files, host, pending>>

\* A query on the service held before the update instead of the one returned.
queriedService_BeforeUpdate(p) == languageService

\* const lang = this.lang.updateDocument(document): the service the plugin
\* queries is the one updateDocument returned.
queriedService(p) == languageService'

\* ------------------------------------------------------- the last operation
NoCall ==
    [ op |-> "none", path |-> "", lang |-> 0, queried |-> FALSE,
      langLive |-> FALSE, restarted |-> FALSE, raised |-> FALSE,
      engine |-> <<>>, ret |-> <<>> ]

\* The record of an operation on path p that called updateDocument.
UpdateCall(name, p) ==
    [ NoCall EXCEPT
        !.op = name, !.path = p, !.lang = queriedService(p),
        !.restarted = scriptKindChanged(documents, p, fromDocument(docs[p])) ]

\* The record of an operation whose engine query ran on the service
\* updateDocument returned: the query reads the host, which may throw.
QueryCall(name, p) ==
    [ UpdateCall(name, p) EXCEPT
        !.queried = TRUE,
        !.langLive = ~sessions'[queriedService(p)].disposed,
        !.raised = getScriptFileNames(files, documents').threw ]

\* ------------------------------------------------------- result adapters
Min(a, b) == IF a < b THEN a ELSE b
Max(a, b) == IF a > b THEN a ELSE b

\* document.positionAt(offset): the offset clamped to the text; the modelled
\* texts are single lines, so the position is line 0 at that character.
positionAt(document, offset) ==
    [line |-> 0, character |-> Min(Max(offset, 0), Len(document.text))]

\* convertRange(document, {start, length})
convertRange(document, range) ==
    [ start |-> positionAt(document, range.start),
      end |-> positionAt(document, range.start + range.length) ]

\* What the engine may report for a file: no diagnostic or two, in file
\* order within each list; the first semantic one lies before both
\* syntactic ones.
SyntacticOutcomes ==
    { <<>>,
      << [start |-> 5, length |-> 1, messageText |-> "';' expected."],
         [start |-> 8, length |-> 1, messageText |-> "Expression expected."] >> }
SemanticOutcomes ==
    { <<>>,
      << [start |-> 4, length |-> 1, messageText |-> "Type mismatch."],
         [start |-> 8, length |-> 3, messageText |-> "Cannot find name."] >> }
QuickInfoOutcomes ==
    { [found |-> FALSE, start |-> 0, length |-> 0, displayParts |-> ""],
      [found |-> TRUE, start |-> 4, length |-> 1, displayParts |-> "let x: number"] }

\* The adapter with the semantic diagnostics spread first.
diagnosticsOf_SemanticFirst(document, syntaxDiagnostics, semanticDiagnostics) ==
    LET all == semanticDiagnostics \o syntaxDiagnostics
    IN [ i \in 1..Len(all) |->
           [ range |-> convertRange(document, all[i]),
             severity |-> "Error",
             source |-> IF getScriptKindFromTypeAttribute(document.type) = "TS"
                        THEN "ts" ELSE "js",
             message |-> all[i].messageText ] ]

\* [...syntaxDiagnostics, ...semanticDiagnostics].map(...)
diagnosticsOf(document, syntaxDiagnostics, semanticDiagnostics) ==
    LET all == syntaxDiagnostics \o semanticDiagnostics
    IN [ i \in 1..Len(all) |->
           [ range |-> convertRange(document, all[i]),
             severity |-> "Error",
             source |-> IF getScriptKindFromTypeAttribute(document.type) = "TS"
                        THEN "ts" ELSE "js",
             message |-> all[i].messageText ] ]

\* doHover answering a hover without contents when the engine has no info.
hoverOf_EmptyHover(document, info) ==
    [ null |-> FALSE,
      range |-> convertRange(document, info),
      contents |-> [language |-> "ts", value |-> info.displayParts] ]

\* The value doHover returns for what getQuickInfoAtPosition gave.
hoverOf(document, info) ==
    IF ~info.found THEN [null |-> TRUE]
    ELSE [ null |-> FALSE,
           range |-> convertRange(document, info),
           contents |-> [language |-> "ts", value |-> info.displayParts] ]

\* ------------------------------------------------------- formatting
\* prettier.format(text, ...) on the modelled texts.
prettierFormat(text) ==
    CASE text = "" -> ""
      [] text = "let x = 1" -> "let x = 1;\n"
      [] OTHER -> text

\* detectIndent(text): the modelled texts have no indentation.
detectIndent(text) == [amount |-> 0, type |-> "none"]

\* indentString(str, count, indent) on a text of one line.
RECURSIVE RepeatString(_, _)
RepeatString(indent, count) ==
    IF count = 0 THEN "" ELSE indent \o RepeatString(indent, count - 1)
indentString(str, count, indent) ==
    IF count = 0 \/ str = "" THEN str ELSE RepeatString(indent, count) \o str

\* The edit built without the newline in front of the formatted code.
formatEdits_NoLeadingNewline(document) ==
    LET formattedCode == prettierFormat(document.text)
        indent == detectIndent(document.text)
    IN << [ range |-> [ start |-> positionAt(document, 0),
                        end |-> positionAt(document, Len(document.text)) ],
            newText |-> indentString(formattedCode, indent.amount,
                                     IF indent.type = "tab" THEN "\t" ELSE " ") ] >>

\* The edits formatDocument builds after prettier.resolveConfig has resolved.
formatEdits(document) ==
    LET formattedCode == prettierFormat(document.text)
        indent == detectIndent(document.text)
    IN << [ range |-> [ start |-> positionAt(document, 0),
                        end |-> positionAt(document, Len(document.text)) ],
            newText |-> "\n" \o indentString(formattedCode, indent.amount,
                                   IF indent.type = "tab" THEN "\t" ELSE " ") ] >>

\* ------------------------------------------------------- module resolution
\* A path or module name is its segments and whether it starts at the root:
\* "./Comp.svelte" is [abs |-> FALSE, segs |-> <<".", "Comp.svelte">>].
ModuleNames ==
    { [abs |-> FALSE, segs |-> <<".", "Comp.svelte">>],
      [abs |-> FALSE, segs |-> <<"..", "page.html">>],
      [abs |-> TRUE, segs |-> <<"lib", "Comp.svelte">>],
      [abs |-> FALSE, segs |-> <<"lodash">>] }
ContainingFiles ==
    { [abs |-> TRUE, segs |-> <<"w", "App.svelte">>],
      [abs |-> TRUE, segs |-> <<"w", "src", "B.html">>] }
\* Longest list of module names the engine asks to resolve at once.
MaxNames == 2

\* The text of a segment from its last dot on ("" when it has none).
SegmentExtension(segment) ==
    CASE segment \in {"Comp.svelte", "App.svelte"} -> ".svelte"
      [] segment \in {"page.html", "B.html"} -> ".html"
      [] OTHER -> ""

\* path.normalize on segments: "." is dropped, ".." removes the segment
\* before it (and is dropped at the root).
RECURSIVE NormalizeFrom(_, _)
NormalizeFrom(done, segs) ==
    IF segs = <<>> THEN done
    ELSE IF Head(segs) = "." THEN NormalizeFrom(done, Tail(segs))
    ELSE IF Head(segs) = ".."
         THEN NormalizeFrom(IF done = <<>> THEN done
                            ELSE SubSeq(done, 1, Len(done) - 1), Tail(segs))
    ELSE NormalizeFrom(Append(done, Head(segs)), Tail(segs))
normalize(segs) == NormalizeFrom(<<>>, segs)

\* path.dirname of a file path
dirname(path) ==
    [abs |-> path.abs, segs |-> SubSeq(path.segs, 1, Len(path.segs) - 1)]

\* path.extname
extname(path) == SegmentExtension(path.segs[Len(path.segs)])

\* path.join(from, to): the two concatenated, then normalized.
join(from, to) == [abs |-> from.abs, segs |-> normalize(from.segs \o to.segs)]

\* path.resolve(from, to) for an absolute from: an absolute to replaces from.
resolve(from, to) ==
    IF to.abs THEN [abs |-> TRUE, segs |-> normalize(to.segs)]
    ELSE [abs |-> TRUE, segs |-> normalize(from.segs \o to.segs)]

\* isSvelte recognizing .svelte alone.
isSvelte_SvelteOnly(filePath) == extname(filePath) = ".svelte"

\* filePath.endsWith('.html') || filePath.endsWith('.svelte')
isSvelte(filePath) == extname(filePath) = ".html" \/ extname(filePath) = ".svelte"

\* What ts.resolveModuleName found for a name: resolved.resolvedModule is a
\* module when found is TRUE and undefined otherwise.
NativeModule(name, found) ==
    IF found
    THEN [undefined |-> FALSE, native |-> TRUE, name |-> name]
    ELSE Undefined

\* host.resolveModuleNames(moduleNames, containingFile); found[i] tells
\* whether ts.resolveModuleName resolves moduleNames[i].
resolveModuleNames(moduleNames, containingFile, found) ==
    [ i \in 1..Len(moduleNames) |->
        IF NativeModule(moduleNames[i], found[i]) = Undefined /\ isSvelte(moduleNames[i])
        THEN [ undefined |-> FALSE, native |-> FALSE,
               resolvedFileName |-> resolve(dirname(containingFile), moduleNames[i]),
               extension |-> extname(moduleNames[i]) ]
        ELSE NativeModule(moduleNames[i], found[i]) ]

\* ------------------------------------------------------- operations
Init ==
    /\ constructed = FALSE
    /\ docs \in [Paths -> [text : {""}, version : {FirstVersion}, type : TypeAttributes]]
    /\ documents = <<>>
    /\ compilerOptions = DefaultCompilerOptions
    /\ files = [assigned |-> FALSE, value |-> <<>>]
    /\ host = 0
    /\ sessions = <<>>
    /\ languageService = 0
    /\ pending = {}
    /\ held = NotHeld
    /\ last = NoCall

\* getLanguageService() up to the host: configJson is set when a config file
\* was found and read; only then is files assigned and are the options merged.
discoveredFiles(config) ==
    IF config.found /\ config.json
    THEN [assigned |-> TRUE, value |-> config.fileNames]
    ELSE [assigned |-> FALSE, value |-> <<>>]
discoveredOptions(config) ==
    IF config.found /\ config.json
    THEN MergeOptions(DefaultCompilerOptions, config.options)
    ELSE DefaultCompilerOptions

\* A construction that leaves the language service to the first use.
Construct_Lazy ==
    /\ ~constructed
    /\ \E config \in ConfigOutcomes :
         /\ files' = discoveredFiles(config)
         /\ compilerOptions' = discoveredOptions(config)
    /\ constructed' = TRUE
    /\ host' = 1
    /\ sessions' = <<>>
    /\ languageService' = 0
    /\ last' = [NoCall EXCEPT !.op = "construct"]
    /\ UNCHANGED <<docs, documents, pending, held>>

\* new TypeScriptPlugin(): the field initializer runs getLanguageService().
Construct ==
    /\ ~constructed
    /\ \E config \in ConfigOutcomes :
         /\ files' = discoveredFiles(config)
         /\ compilerOptions' = discoveredOptions(config)
    /\ constructed' = TRUE
    /\ host' = 1
    /\ sessions' = createLanguageService(<<>>, 1)
    /\ languageService' = 1
    /\ last' = [NoCall EXCEPT !.op = "construct", !.lang = 1]
    /\ UNCHANGED <<docs, documents, pending, held>>

\* The editor changes a document: new text and type attribute, next version.
Edit(p) ==
    /\ docs[p].version < FirstVersion + MaxEdits
    /\ \E t \in Texts, a \in TypeAttributes :
         /\ <<t, a>> # <<docs[p].text, docs[p].type>>
         /\ docs' = [docs EXCEPT ![p] = [text |-> t, version |-> @.version + 1, type |-> a]]
    /\ last' = [NoCall EXCEPT !.op = "edit"]
    /\ UNCHANGED <<constructed, documents, compilerOptions, files, host,
                   sessions, languageService, pending, held>>

\* lang.updateDocument(document), called on the manager directly.
Update(p) ==
    /\ updateDocument(p)
    /\ last' = UpdateCall("updateDocument", p)

getDiagnostics(p) ==
    /\ updateDocument(p)
    /\ LET call == QueryCall("getDiagnostics", p)
       IN IF call.raised THEN last' = call
          ELSE \E syn \in SyntacticOutcomes, sem \in SemanticOutcomes :
                 last' = [call EXCEPT
                            !.engine = [syntactic |-> syn, semantic |-> sem],
                            !.ret = diagnosticsOf(docs[p], syn, sem)]

doHover(p) ==
    /\ updateDocument(p)
    /\ LET call == QueryCall("doHover", p)
       IN IF call.raised THEN last' = call
          ELSE \E info \in QuickInfoOutcomes :
                 last' = [call EXCEPT !.engine = info,
                                      !.ret = hoverOf(docs[p], info)]

\* formatDocument up to its await: an empty document returns [] at once,
\* any other suspends at prettier.resolveConfig.
formatDocumentStart(p) ==
    /\ constructed
    /\ p \notin pending
    /\ IF Len(docs[p].text) = 0
       THEN /\ last' = [NoCall EXCEPT !.op = "formatDocument", !.path = p]
            /\ pending' = pending
       ELSE /\ last' = [NoCall EXCEPT !.op = "formatSuspend", !.path = p]
            /\ pending' = pending \cup {p}
    /\ UNCHANGED <<constructed, docs, documents, compilerOptions, files, host,
                   sessions, languageService, held>>

\* formatDocument after its await: formats the document as it is now.
formatDocumentResume(p) ==
    /\ p \in pending
    /\ pending' = pending \ {p}
    /\ last' = [NoCall EXCEPT !.op = "formatDocument", !.path = p,
                              !.ret = formatEdits(docs[p])]
    /\ UNCHANGED <<constructed, docs, documents, compilerOptions, files, host,
                   sessions, languageService, held>>

\* The synchronous operations: the plugin's construction, the editor's
\* edits, and the calls that go through updateDocument.
Next ==
    \/ Construct
    \/ \E p \in Paths : Edit(p)
    \/ \E p \in Paths : Update(p)
    \/ \E p \in Paths : getDiagnostics(p)
    \/ \E p \in Paths : doHover(p)

Spec == Init /\ [][Next]_vars

\* The same operations interleaved with formatDocument, which suspends.
NextAsync ==
    \/ \E p \in Paths : Edit(p)
    \/ \E p \in Paths : Update(p)
    \/ \E p \in Paths : getDiagnostics(p)
    \/ \E p \in Paths : doHover(p)
    \/ \E p \in Paths : formatDocumentStart(p)
    \/ \E p \in Paths : formatDocumentResume(p)

\* The plugin already constructed, in a workspace that has a config file,
\* with its documents just opened, without a type attribute.
InitAsync ==
    /\ constructed = TRUE
    /\ docs \in [Paths -> [text : {""}, version : {FirstVersion}, type : {"absent"}]]
    /\ documents = <<>>
    /\ \E config \in { c \in ConfigOutcomes : c.found /\ c.json } :
         /\ files = discoveredFiles(config)
         /\ compilerOptions = discoveredOptions(config)
    /\ host = 1
    /\ sessions = createLanguageService(<<>>, 1)
    /\ languageService = 1
    /\ pending = {}
    /\ held = NotHeld
    /\ last = [NoCall EXCEPT !.op = "construct", !.lang = 1]

SpecAsync == InitAsync /\ [][NextAsync]_vars

\* The engine asks the host to resolve the imports of a file.
resolveCall(moduleNames, containingFile, found) ==
    /\ constructed
    /\ last' = [NoCall EXCEPT
                  !.op = "resolveModuleNames",
                  !.ret = [ moduleNames |-> moduleNames,
                            containingFile |-> containingFile,
                            found |-> found,
                            result |-> resolveModuleNames(moduleNames,
                                                          containingFile, found) ]]
    /\ UNCHANGED <<constructed, docs, documents, compilerOptions, files, host,
                   sessions, languageService, pending, held>>

NameLists == UNION { [1..n -> ModuleNames] : n \in 0..MaxNames }

NextResolve ==
    \E moduleNames \in NameLists, containingFile \in ContainingFiles :
        \E found \in [1..Len(moduleNames) -> BOOLEAN] :
            resolveCall(moduleNames, containingFile, found)

SpecResolve == InitAsync /\ [][NextResolve]_vars

\* The plugin constructed as in InitAsync, its documents opened with any of
\* the texts.
InitFormat ==
    /\ constructed = TRUE
    /\ docs \in [Paths -> [text : Texts, version : {FirstVersion}, type : {"absent"}]]
    /\ documents = <<>>
    /\ \E config \in { c \in ConfigOutcomes : c.found /\ c.json } :
         /\ files = discoveredFiles(config)
         /\ compilerOptions = discoveredOptions(config)
    /\ host = 1
    /\ sessions = createLanguageService(<<>>, 1)
    /\ languageService = 1
    /\ pending = {}
    /\ held = NotHeld
    /\ last = [NoCall EXCEPT !.op = "construct", !.lang = 1]

\* The editor's edits and the manager's updates interleaved with
\* formatDocument calls.
NextFormat ==
    \/ \E p \in Paths : Edit(p)
    \/ \E p \in Paths : Update(p)
    \/ \E p \in Paths : formatDocumentStart(p)
    \/ \E p \in Paths : formatDocumentResume(p)

SpecFormat == InitFormat /\ [][NextFormat]_vars

\* A caller of the host (the engine, a result adapter) asks for the snapshot
\* of a tracked fragment and keeps the object it gets.
holdSnapshot(p) ==
    /\ constructed
    /\ MapHas(documents, p)
    /\ held' = [path |-> p, snap |-> getScriptSnapshot(documents, p), stored |-> TRUE]
    /\ last' = [NoCall EXCEPT !.op = "getScriptSnapshot", !.path = p]
    /\ UNCHANGED <<constructed, docs, documents, compilerOptions, files, host,
                   sessions, languageService, pending>>

\* Edits, updates and hover queries while a snapshot object is held.
NextSnapshots ==
    \/ \E p \in Paths : Edit(p)
    \/ \E p \in Paths : Update(p)
    \/ \E p \in Paths : doHover(p)
    \/ \E p \in Paths : holdSnapshot(p)

SpecSnapshots == InitAsync /\ [][NextSnapshots]_vars

\* ======================================================= properties
UpdateOps == {"updateDocument", "getDiagnostics", "doHover"}

\* The step is a call of updateDocument for path p (made directly or by
\* getDiagnostics or doHover).
Called(p) == last'.op \in UpdateOps /\ last'.path = p

\* The script kind of the document at p differs from the one stored for p.
KindDiffers(p) ==
    /\ MapHas(documents, p)
    /\ MapGet(documents, p).scriptKind # getScriptKindFromTypeAttribute(docs[p].type)

\* The version of p as the engine reads it from the host, as a number.
VersionOf(m, p) == NumberOfString(getScriptVersion(m, p))

\* C1: an update of a tracked fragment whose stored dialect differs from the
\* document's returns, and keeps as current, a service object other than the
\* one current before the call; an update of a new fragment or with the same
\* dialect leaves the current service the same object.
C1_RestartExactlyOnKindChange ==
    [][\A p \in Paths : Called(p) =>
          /\ last'.lang = languageService'
          /\ IF KindDiffers(p)
             THEN languageService' # languageService
             ELSE languageService' = languageService /\ sessions' = sessions]_vars

C1_Witness ==
    /\ last.op = "updateDocument"
    /\ last.restarted
    /\ last.lang = languageService

\* C2: once the manager exists exactly one service is live, it is the one
\* the manager holds, and no service was created while another was live.
C2_OneLiveSession ==
    constructed =>
        /\ LiveSessions(sessions) = {languageService}
        /\ \A i \in 1..Len(sessions) : sessions[i].liveBefore = 0

C2_Witness == constructed /\ Len(sessions) >= 3

\* C3: with formatDocument calls suspended in between, every engine query of
\* getDiagnostics and doHover runs on a service that is live at the query,
\* and that service is the manager's current one.
C3_QueryOnLiveSession ==
    last.queried => last.langLive /\ last.lang = languageService

C3_Witness == last.queried /\ last.restarted /\ pending # {}

\* C4 as stated: versionOf is "0" before the first update and every update
\* call makes versionOf of its fragment strictly greater than before.
C4_StrictlyGreaterOnEveryUpdate ==
    [][\A p \in Paths :
          /\ ~MapHas(documents, p) => getScriptVersion(documents, p) = <<"0">>
          /\ Called(p) => VersionOf(documents', p) > VersionOf(documents, p)]_vars

\* C4 amended: versionOf is "0" before the first update; after an update it
\* is the document's version as a string, greater than before when the
\* document's version is greater than the stored one and the same as before
\* when the document was not edited since the last update.
C4_VersionFollowsDocument ==
    [][\A p \in Paths :
          /\ ~MapHas(documents, p) => getScriptVersion(documents, p) = <<"0">>
          /\ Called(p) =>
               /\ getScriptVersion(documents', p) = StringOfNumber(docs[p].version)
               /\ docs[p].version > VersionOf(documents, p)
                    => VersionOf(documents', p) > VersionOf(documents, p)
               /\ docs[p].version = VersionOf(documents, p)
                    => getScriptVersion(documents', p) = getScriptVersion(documents, p)]_vars

C4_Witness ==
    /\ last.op = "doHover"
    /\ getScriptVersion(documents, last.path) = <<"1", "0">>

\* C5: without a config file no operation raises an error, the options are
\* the defaults, and the file names the host gives the engine in a query are
\* exactly the tracked fragments.
C5_NoConfigNoError ==
    (constructed /\ ~files.assigned) =>
        /\ ~last.raised
        /\ compilerOptions = DefaultCompilerOptions
        /\ last.queried =>
             /\ ~getScriptFileNames(files, documents).threw
             /\ getScriptFileNames(files, documents).value = MapKeys(documents)

\* C6 as stated: no service exists until the first update or query.
C6_NoSessionBeforeFirstUse ==
    documents = <<>> => sessions = <<>> /\ languageService = 0

\* C6 amended: the service is created when the plugin is constructed; the
\* first update, getDiagnostics or doHover finds it and creates none.
C6_SessionCreatedAtConstruction ==
    [][/\ ~constructed => sessions = <<>>
       /\ (~constructed /\ constructed') => Len(sessions') = 1 /\ languageService' = 1
       /\ \A p \in Paths : (Called(p) /\ documents = <<>>) =>
            sessions' = sessions /\ languageService' = 1]_vars

C6_Witness == constructed /\ documents = <<>> /\ Len(sessions) = 1

NoDuplicates(s) == \A i, j \in 1..Len(s) : s[i] = s[j] => i = j

\* C7: the file names the host gives the engine are exactly the project
\* files and the tracked fragments, each once, in every state in which a
\* fragment is tracked.
C7_FileNamesAreTheUnion ==
    (constructed /\ documents # <<>>) =>
        /\ ~getScriptFileNames(files, documents).threw
        /\ SeqToSet(getScriptFileNames(files, documents).value)
             = SeqToSet(files.value) \cup SeqToSet(MapKeys(documents))
        /\ NoDuplicates(getScriptFileNames(files, documents).value)

\* C8 as stated: the stored snapshot for a tracked fragment, null for every
\* other file name.
C8_NullWhenUntracked ==
    constructed =>
        \A f \in FileNames :
            IF MapHas(documents, f)
            THEN getScriptSnapshot(documents, f) = MapGet(documents, f)
            ELSE getScriptSnapshot(documents, f) = Undefined

\* C8 amended: the snapshot of the last update for a tracked fragment; for
\* every other file name a snapshot of the file's text on disk, of the empty
\* text when the file cannot be read, and never null.
C8_DiskSnapshotWhenUntracked ==
    constructed =>
        /\ \A f \in FileNames :
             IF MapHas(documents, f)
             THEN getScriptSnapshot(documents, f) = MapGet(documents, f)
             ELSE /\ getScriptSnapshot(documents, f) # Undefined
                  /\ getScriptSnapshot(documents, f).fromString
                  /\ getScriptSnapshot(documents, f).text =
                       (IF f \in DiskFiles THEN readFile(f).text ELSE "")
                  /\ getScriptSnapshot(documents, f).length
                       = Len(getScriptSnapshot(documents, f).text)
        /\ last.op \in UpdateOps =>
             /\ getScriptSnapshot(documents, last.path).text = docs[last.path].text
             /\ getScriptSnapshot(documents, last.path).version = docs[last.path].version

C8_Witness ==
    /\ last.op = "getDiagnostics"
    /\ Len(documents) = 1
    /\ docs[last.path].text # ""

\* C10: a restart leaves the compiler options, the project files and the
\* host as they were, builds the new service on that same host, and leaves
\* the entry of every other tracked fragment as it was.
C10_RestartFrame ==
    [][\A p \in Paths : (Called(p) /\ last'.restarted) =>
          /\ compilerOptions' = compilerOptions
          /\ files' = files
          /\ host' = host
          /\ sessions'[languageService'].host = host
          /\ \A q \in Paths \ {p} :
               MapHas(documents, q) =>
                  /\ MapHas(documents', q)
                  /\ MapGet(documents', q) = MapGet(documents, q)
          /\ MapKeys(documents') = MapKeys(documents)]_vars

C10_Witness ==
    /\ last.op \in UpdateOps
    /\ last.restarted
    /\ Len(documents) = 2
    /\ files.assigned

\* The slot resolveModuleNames must give for a name, with the path of a
\* synthesized reference given by synthesized(directory, name).
ExpectedSlot(name, containingFile, found, synthesized(_, _)) ==
    IF found THEN NativeModule(name, TRUE)
    ELSE IF extname(name) \in {".html", ".svelte"}
         THEN [ undefined |-> FALSE, native |-> FALSE,
                resolvedFileName |-> synthesized(dirname(containingFile), name),
                extension |-> extname(name) ]
         ELSE Undefined

SlotsAre(synthesized(_, _)) ==
    last.op = "resolveModuleNames" =>
        /\ Len(last.ret.result) = Len(last.ret.moduleNames)
        /\ \A i \in 1..Len(last.ret.moduleNames) :
             last.ret.result[i] =
                ExpectedSlot(last.ret.moduleNames[i], last.ret.containingFile,
                             last.ret.found[i], synthesized)

\* C9 as stated: one slot per name in request order: the native result when
\* native resolution succeeds, else for a .html or .svelte name a reference
\* to the requesting file's directory joined with the name, else unresolved.
C9_FallbackIsDirectoryJoinedWithName == SlotsAre(join)

\* The name resolved against a directory: the two joined when the name is
\* relative, the name itself when it is absolute.
ResolvedAgainst(directory, name) ==
    IF name.abs THEN [abs |-> TRUE, segs |-> normalize(name.segs)]
    ELSE join(directory, name)

\* C9 amended: as stated, with the synthesized path being the name resolved
\* against the requesting file's directory: the directory joined with the
\* name when the name is relative, the name itself when it is absolute.
C9_FallbackIsNameResolvedAgainstDirectory == SlotsAre(ResolvedAgainst)

C9_Witness ==
    /\ last.op = "resolveModuleNames"
    /\ Len(last.ret.result) = 2
    /\ last.ret.result[1] # Undefined /\ ~last.ret.result[1].native
    /\ last.ret.result[2] = Undefined

\* C11: no edit, update or query removes a tracked fragment from the Map:
\* a key once stored stays a key, at its place, and its entry changes only
\* in an update of that fragment, to the snapshot of the document as it is
\* then, whose version is not lower than the stored one.
C11_TrackedStaysTracked ==
    [][\A q \in Paths : MapHas(documents, q) =>
          /\ MapHas(documents', q)
          /\ SubSeq(MapKeys(documents'), 1, Len(documents)) = MapKeys(documents)
          /\ MapGet(documents', q) # MapGet(documents, q) =>
               /\ Called(q)
               /\ MapGet(documents', q) = fromDocument(docs[q])
               /\ MapGet(documents', q).version >= MapGet(documents, q).version]_vars

\* Both fragments tracked, the first one stored again after an edit, by an
\* update that did not restart the service.
C11_Witness ==
    /\ Len(documents) = 2
    /\ last.op \in UpdateOps /\ ~last.restarted
    /\ last.path = documents[1].key
    /\ documents[1].snap.version > FirstVersion
    /\ documents[2].snap.version = FirstVersion

\* C12: what getDiagnostics returns is one diagnostic for each one the
\* engine reported, the syntactic ones first and the semantic ones after
\* them, each list in the engine's order, none dropped and none repeated:
\* the empty sequence when the engine reported none.
C12_SyntacticThenSemantic ==
    (last.op = "getDiagnostics" /\ ~last.raised) =>
        LET syn == last.engine.syntactic
            sem == last.engine.semantic
        IN /\ Len(last.ret) = Len(syn) + Len(sem)
           /\ \A i \in 1..Len(syn) :
                /\ last.ret[i].message = syn[i].messageText
                /\ last.ret[i].range = convertRange(docs[last.path], syn[i])
           /\ \A i \in 1..Len(sem) :
                /\ last.ret[Len(syn) + i].message = sem[i].messageText
                /\ last.ret[Len(syn) + i].range = convertRange(docs[last.path], sem[i])
           /\ (syn = <<>> /\ sem = <<>>) => last.ret = <<>>

\* Two syntactic and two semantic diagnostics returned for a text they
\* lie in.
C12_Witness ==
    /\ last.op = "getDiagnostics" /\ ~last.raised
    /\ Len(last.engine.syntactic) = 2 /\ Len(last.engine.semantic) = 2
    /\ Len(last.ret) = 4
    /\ docs[last.path].text # ""

\* Type attribute values beside the ones the documents take: other
\* spellings and other media types.
OtherTypeAttributes ==
    {"", "typescript", "text/TypeScript", "text/typescript ", "application/typescript"}

\* C13: the script kind is TS exactly when the type attribute is
\* text/typescript and JS for every other value and for a missing
\* attribute, the mapping has a value for every attribute; the snapshot an
\* update stores has that kind, and every diagnostic getDiagnostics returns
\* has source "ts" when the kind is TS and "js" when it is not.
C13_TypedExactlyForTextTypescript ==
    /\ \A a \in TypeAttributes \cup OtherTypeAttributes :
         /\ getScriptKindFromTypeAttribute(a) \in {"TS", "JS"}
         /\ getScriptKindFromTypeAttribute(a) = "TS" <=> a = "text/typescript"
    /\ last.op \in UpdateOps =>
         (MapGet(documents, last.path).scriptKind = "TS"
            <=> docs[last.path].type = "text/typescript")
    /\ (last.op = "getDiagnostics" /\ ~last.raised) =>
         \A i \in 1..Len(last.ret) :
            last.ret[i].source =
               (IF docs[last.path].type = "text/typescript" THEN "ts" ELSE "js")

\* Diagnostics of a TypeScript fragment returned while the other fragment,
\* without a type attribute, is tracked as JavaScript.
C13_Witness ==
    /\ last.op = "getDiagnostics" /\ ~last.raised
    /\ Len(last.ret) = 4 /\ last.ret[1].source = "ts"
    /\ \E q \in Paths \ {last.path} :
         /\ docs[q].type = "absent"
         /\ MapHas(documents, q) /\ MapGet(documents, q).scriptKind = "JS"

FormatOps == {"formatDocument", "formatSuspend"}

\* The step is a call of formatDocument for path p reaching its await or
\* returning before it.
FormatCalled(p) == last'.op \in FormatOps /\ last'.path = p /\ p \notin pending

\* The step is the return of the formatDocument call suspended for path p.
FormatResumed(p) == p \in pending /\ p \notin pending'

\* What prettier yields for the modelled texts.
FormattedTexts == { prettierFormat(t) : t \in Texts }

\* C14: formatDocument called on a zero-length document returns the empty
\* edit sequence at once; called on any other document it returns, when it
\* resumes, exactly one edit, from offset 0 to the length of the document,
\* whose new text is a newline followed by the formatted code; no step of
\* formatDocument changes the documents Map, the services or the current
\* service.
C14_OneFullDocumentEdit ==
    [][\A p \in Paths :
          /\ (FormatCalled(p) \/ FormatResumed(p)) =>
                /\ documents' = documents
                /\ sessions' = sessions
                /\ languageService' = languageService
          /\ (FormatCalled(p) /\ Len(docs[p].text) = 0) =>
                last'.op = "formatDocument" /\ last'.ret = <<>> /\ pending' = pending
          /\ (FormatCalled(p) /\ Len(docs[p].text) # 0) =>
                last'.op = "formatSuspend" /\ p \in pending'
          /\ FormatResumed(p) =>
                /\ last'.op = "formatDocument" /\ last'.path = p
                /\ Len(last'.ret) = 1
                /\ last'.ret[1].range.start = [line |-> 0, character |-> 0]
                /\ last'.ret[1].range.end =
                      [line |-> 0, character |-> Len(docs[p].text)]
                /\ \E code \in FormattedTexts :
                      last'.ret[1].newText = "\n" \o code]_vars

\* The one edit of a document that is not empty, returned while a fragment
\* is tracked.
C14_Witness ==
    /\ last.op = "formatDocument"
    /\ Len(last.ret) = 1
    /\ last.ret[1].range.end.character = Len("let x = 1")
    /\ last.ret[1].newText = "\nlet x = 1;\n"
    /\ documents # <<>>

\* C15: doHover returns null, and raises nothing, when the engine has no
\* quick info at the position; when it has, doHover returns a hover whose
\* range is the text span of the info converted to positions of the
\* document and whose contents are the display parts, marked as ts.
C15_NullWhenNoInfo ==
    (last.op = "doHover" /\ last.engine # <<>>) =>
        /\ ~last.raised
        /\ IF ~last.engine.found
           THEN last.ret = [null |-> TRUE]
           ELSE /\ ~last.ret.null
                /\ last.ret.range.start =
                     positionAt(docs[last.path], last.engine.start)
                /\ last.ret.range.end =
                     positionAt(docs[last.path],
                                last.engine.start + last.engine.length)
                /\ last.ret.contents =
                     [language |-> "ts", value |-> last.engine.displayParts]

\* doHover returned null for a document with text, on a restarted service.
C15_Witness ==
    /\ last.op = "doHover" /\ last.engine # <<>>
    /\ ~last.engine.found /\ last.ret = [null |-> TRUE]
    /\ docs[last.path].text # ""
    /\ last.restarted

\* C16: a snapshot never changes. The snapshot an update stores has the
\* text, length, version and script kind the document has at that update;
\* the stored snapshot of a fragment stays as it is in every step that is
\* not an update of that fragment; and a snapshot object already handed
\* out yields the same members after every edit of the document and every
\* update, an update of its fragment leaving it out of the Map, which
\* then holds another object.
C16_SnapshotNeverChanges ==
    [][/\ \A p \in Paths : Called(p) =>
            /\ MapGet(documents', p).text = docs[p].text
            /\ MapGet(documents', p).length = Len(docs[p].text)
            /\ MapGet(documents', p).version = docs[p].version
            /\ MapGet(documents', p).scriptKind
                  = getScriptKindFromTypeAttribute(docs[p].type)
       /\ \A q \in Paths : (MapHas(documents, q) /\ ~Called(q)) =>
            MapGet(documents', q) = MapGet(documents, q)
       /\ (held # NotHeld /\ last'.op # "getScriptSnapshot") =>
            /\ held'.path = held.path
            /\ snapshotContents(held'.snap, docs'[held.path])
                  = snapshotContents(held.snap, docs[held.path])
            /\ Called(held.path) => ~held'.stored]_vars

\* A held snapshot that still has the text of before an edit, after the
\* edited document was stored by an update.
C16_Witness ==
    /\ held # NotHeld /\ ~held.stored
    /\ last.op \in UpdateOps /\ last.path = held.path
    /\ held.snap.text # docs[held.path].text
    /\ MapGet(documents, held.path).text = docs[held.path].text
    /\ held.snap.version < MapGet(documents, held.path).version

\* C17: when updateDocument returns, with or without a restart, the host
\* answers for the fragment with the snapshot just captured: its version is
\* the document's version as a string, its text and length are the
\* document's, a snapshot stored before with other values is no longer
\* answered, and the service returned is the current one, which is live.
C17_UpdateVisibleAtReturn ==
    [][\A p \in Paths : Called(p) =>
          /\ getScriptVersion(documents', p) = StringOfNumber(docs[p].version)
          /\ getScriptSnapshot(documents', p).text = docs[p].text
          /\ getScriptSnapshot(documents', p).length = Len(docs[p].text)
          /\ (MapHas(documents, p) /\ MapGet(documents, p) # fromDocument(docs[p]))
                => getScriptSnapshot(documents', p) # MapGet(documents, p)
          /\ last'.lang = languageService'
          /\ ~sessions'[languageService'].disposed
          /\ last'.restarted <=> languageService' # languageService]_vars

\* An update that restarted the service returned with the edited text and
\* the two-digit version stored.
C17_Witness ==
    /\ last.op = "updateDocument" /\ last.restarted
    /\ getScriptVersion(documents, last.path) = <<"1", "0">>
    /\ getScriptSnapshot(documents, last.path).text = "let x = 1"
    /\ last.lang = languageService

\* C18: an update of a fragment that follows an update of the same
\* fragment, the document not edited in between, changes nothing: the Map,
\* what the host answers for the fragment, the services and the current
\* service stay as the first update left them, and it does not restart.
C18_UpdateIdempotent ==
    [][\A p \in Paths :
          (last.op \in UpdateOps /\ last.path = p /\ Called(p)) =>
              /\ documents' = documents
              /\ getScriptVersion(documents', p) = getScriptVersion(documents, p)
              /\ getScriptSnapshot(documents', p) = getScriptSnapshot(documents, p)
              /\ sessions' = sessions
              /\ languageService' = languageService
              /\ last'.lang = last.lang
              /\ ~last'.restarted]_vars

\* A second call on the same unedited document right after a call that
\* restarted the service: the restart is not repeated.
C18_Witness ==
    /\ last.op = "getDiagnostics" /\ ~last.restarted
    /\ last.engine # <<>>
    /\ Len(sessions) = 2 /\ languageService = 2
    /\ MapGet(documents, last.path) = fromDocument(docs[last.path])
    /\ docs[last.path].version = FirstVersion + 1
    /\ \A q \in Paths \ {last.path} : docs[q].version = FirstVersion

\* C19: the edits formatDocument returns are computed from the document as
\* it is when formatting resumes: none when that document is empty, else
\* one edit of the text formatted then, its range ending at the length of
\* that text.
C19_OneStateAndEmptyYieldsNone ==
    [][\A p \in Paths : FormatResumed(p) =>
          IF Len(docs[p].text) = 0
          THEN last'.ret = <<>>
          ELSE /\ Len(last'.ret) = 1
               /\ last'.ret[1].range.end.character = Len(docs[p].text)
               /\ last'.ret[1].newText = "\n" \o prettierFormat(docs[p].text)]_vars

====
